---- MODULE Spec2Model ----
(***************************************************************************)
(* Database Properties plugin: the schema aggregator (getProperties), the  *)
(* edit operations of DatabasePropertiesModal (add, rename, delete, drag   *)
(* and drop reorder) and the replay that writes the edited schema back to  *)
(* every selected file (batchWriteFrontmatter in src/main.ts,              *)
(* updateMarkdownFiles in src/unnamed/part_001).                           *)
(*                                                                         *)
(* A string is a sequence of one-character strings, so that trim(), the    *)
(* regular expressions and split('---') are computed, not assumed.         *)
(* A frontmatter object is a sequence of [key, value] records in the       *)
(* enumeration order of the JavaScript object.                             *)
(***************************************************************************)
EXTENDS Integers, Sequences, FiniteSets, TLC

VARIABLES
    build,            \* "main" (src/main.ts) or "part1" (src/unnamed/part_001)
    typed,            \* the names the user types into the add and rename inputs
    vault,            \* file -> [hasFm, fm, body]: the documents of the vault
    frontmatterLists, \* plugin.frontmatterLists: one snapshot per aggregated file
    nextId,           \* the next identifier crypto.randomUUID() returns
    modal,            \* "none" | "open": the DatabasePropertiesModal
    fileList,         \* modal.fileList
    propertyList,     \* modal.propertyList: the working list
    addShown,         \* the add section has been rendered (updateAddSection)
    saveOffered,      \* the save section shows the save button (else close)
    captured,         \* history: the snapshots the modal's own aggregation pass built
    replays,          \* the replays started so far, each with its loop position
    last,             \* history: the last edit gesture and whether it was accepted
    gestures          \* number of selections, edits and saves so far

vars == <<build, typed, vault, frontmatterLists, nextId, modal, fileList, propertyList,
          addShown, saveOffered, captured, replays, last, gestures>>

----------------------------------------------------------------------------
(* Bounds of the model *)

\* selections, edit gestures and saves in one run
MaxGestures == 4

----------------------------------------------------------------------------
(* Strings *)

Digits == {"0", "1", "2", "3", "4", "5", "6", "7", "8", "9"}

\* White space removed by String.prototype.trim
WhiteSpace == {" ", "\n"}

RECURSIVE trimStart(_)
trimStart(s) ==
    IF s # <<>> /\ Head(s) \in WhiteSpace THEN trimStart(Tail(s)) ELSE s

RECURSIVE trimEnd(_)
trimEnd(s) ==
    IF s # <<>> /\ s[Len(s)] \in WhiteSpace
    THEN trimEnd(SubSeq(s, 1, Len(s) - 1))
    ELSE s

trim(s) == trimEnd(trimStart(s))

DigitValue(c) ==
    CASE c = "0" -> 0 [] c = "1" -> 1 [] c = "2" -> 2 [] c = "3" -> 3
      [] c = "4" -> 4 [] c = "5" -> 5 [] c = "6" -> 6 [] c = "7" -> 7
      [] c = "8" -> 8 [] c = "9" -> 9

RECURSIVE ToNumber(_)
ToNumber(s) ==
    IF s = <<>> THEN 0
    ELSE 10 * ToNumber(SubSeq(s, 1, Len(s) - 1)) + DigitValue(s[Len(s)])

AllDigits(s) == \A j \in 1..Len(s) : s[j] \in Digits

\* A property key that is a canonical array index ("0", "1", "42", not "01"):
\* a JavaScript object enumerates these first, in ascending numeric order.
IsArrayIndex(key) ==
    /\ key # <<>>
    /\ Len(key) <= 9
    /\ AllDigits(key)
    /\ (Len(key) = 1 \/ key[1] # "0")

\* join(sep) over a list of strings, each string kept as one token
RECURSIVE Join(_, _)
Join(list, sep) ==
    IF list = <<>> THEN <<>>
    ELSE IF Len(list) = 1 THEN <<list[1]>>
    ELSE <<list[1], sep>> \o Join(Tail(list), sep)

----------------------------------------------------------------------------
(* Values of frontmatter properties *)

Null == [kind |-> "null"]
Num(n) == [kind |-> "number", num |-> n]
Bool(b) == [kind |-> "boolean", bool |-> b]
Str(s) == [kind |-> "string", str |-> s]
Arr(items) == [kind |-> "array", items |-> items]
DateObj(t) == [kind |-> "dateobject", time |-> t]

\* /^\d{4}-\d{2}-\d{2}$/
IsDateString(s) ==
    /\ Len(s) = 10
    /\ \A j \in {1, 2, 3, 4, 6, 7, 9, 10} : s[j] \in Digits
    /\ s[5] = "-" /\ s[8] = "-"

\* /^\d{4}-\d{2}-\d{2} \d{2}:\d{2}$/
IsDateTimeString(s) ==
    /\ Len(s) = 16
    /\ \A j \in {1, 2, 3, 4, 6, 7, 9, 10, 12, 13, 15, 16} : s[j] \in Digits
    /\ s[5] = "-" /\ s[8] = "-" /\ s[11] = " " /\ s[14] = ":"

\* the two patterns without the end anchor: /^\d{4}-\d{2}-\d{2}/
getPropertyTypeUnanchored(value) ==
    IF value.kind = "null" THEN "Null"
    ELSE IF value.kind = "array" THEN "List"
    ELSE IF value.kind = "boolean" THEN "Checkbox"
    ELSE IF value.kind = "number" THEN "Number"
    ELSE IF value.kind = "dateobject" THEN "Date & time"
    ELSE IF /\ value.kind = "string"
            /\ Len(value.str) >= 10
            /\ IsDateString(SubSeq(value.str, 1, 10)) THEN "Date"
    ELSE IF /\ value.kind = "string"
            /\ Len(value.str) >= 16
            /\ IsDateTimeString(SubSeq(value.str, 1, 16)) THEN "Date & time"
    ELSE "Text"

getPropertyType(value) ==
    IF value.kind = "null" THEN "Null"
    ELSE IF value.kind = "array" THEN "List"
    ELSE IF value.kind = "boolean" THEN "Checkbox"
    ELSE IF value.kind = "number" THEN "Number"
    ELSE IF value.kind = "dateobject" THEN "Date & time"
    ELSE IF value.kind = "string" /\ IsDateString(value.str) THEN "Date"
    ELSE IF value.kind = "string" /\ IsDateTimeString(value.str) THEN "Date & time"
    ELSE "Text"

----------------------------------------------------------------------------
(* JavaScript objects and the Map of getProperties *)

HasKey(obj, key) == \E j \in 1..Len(obj) : obj[j].key = key

\* obj[key] = value on an ordinary object: an existing key keeps its place, a
\* new array-index key goes among the index keys in ascending order, any other
\* new key goes last.
ObjectSet(obj, key, value) ==
    LET e == [key |-> key, value |-> value]
        before == Cardinality({j \in 1..Len(obj) :
                        /\ IsArrayIndex(obj[j].key)
                        /\ ToNumber(obj[j].key) < ToNumber(key)})
    IN  IF HasKey(obj, key)
        THEN [j \in 1..Len(obj) |-> IF obj[j].key = key THEN e ELSE obj[j]]
        ELSE IF IsArrayIndex(key)
        THEN SubSeq(obj, 1, before) \o <<e>> \o SubSeq(obj, before + 1, Len(obj))
        ELSE Append(obj, e)

\* a list of types that repeats a type seen again
SetAddAgain(set, x) == Append(set, x)

\* Set.prototype.add, the set kept in insertion order
SetAdd(set, x) ==
    IF \E j \in 1..Len(set) : set[j] = x THEN set ELSE Append(set, x)

\* position of key in the Map, 0 when propertiesMap.has(key) is false
MapIndex(map, key) ==
    IF \E j \in 1..Len(map) : map[j].key = key
    THEN CHOOSE j \in 1..Len(map) : map[j].key = key
    ELSE 0

\* value of a property the aggregation creates: null in main.ts, '' in part_001
MapDefault == IF build = "main" THEN Null ELSE Str(<<>>)

\* what addNewProperty pushes
NewProperty(id, name) ==
    IF build = "main"
    THEN [id |-> id, key |-> name, value |-> Null, type |-> <<"Null">>]
    ELSE [id |-> id, key |-> name, value |-> Str(<<>>), type |-> <<"Text">>]

----------------------------------------------------------------------------
(* getProperties: the schema aggregator *)

\* the body of Object.entries(frontmatter).forEach for one file;
\* st = [map, list, next]
RECURSIVE AggregateEntries(_, _)
AggregateEntries(entries, st) ==
    IF entries = <<>> THEN st
    ELSE
        LET e == Head(entries)
            pos == MapIndex(st.map, e.key)
            id == IF pos = 0 THEN st.next ELSE st.map[pos].id
            map1 == IF pos = 0
                    THEN Append(st.map, [id |-> id, key |-> e.key,
                                         value |-> MapDefault, types |-> <<>>])
                    ELSE st.map
            p == IF pos = 0 THEN Len(map1) ELSE pos
            type == getPropertyType(e.value)
            map2 == [map1 EXCEPT ![p].types = SetAdd(@, type)]
            fm == [id |-> id, key |-> e.key, value |-> e.value, type |-> type]
        IN  AggregateEntries(Tail(entries),
                [map |-> map2,
                 list |-> Append(st.list, fm),
                 next |-> IF pos = 0 THEN st.next + 1 ELSE st.next])

\* the object the host parses a metadata block into: the keys of the block
\* assigned in block order
RECURSIVE ParseBlock(_, _)
ParseBlock(block, obj) ==
    IF block = <<>> THEN obj
    ELSE ParseBlock(Tail(block), ObjectSet(obj, Head(block).key, Head(block).value))

\* Object.entries(this.app.metadataCache.getFileCache(file)?.frontmatter):
\* nothing for a file without a metadata block
getFileCache(doc) == IF doc.hasFm THEN ParseBlock(doc.fm, <<>>) ELSE <<>>

\* the loop over fileList; st = [map, lists, next]
RECURSIVE AggregateFiles(_, _)
AggregateFiles(files, st) ==
    IF files = <<>> THEN st
    ELSE
        LET doc == vault[Head(files)]
            entries == getFileCache(doc)
            r == AggregateEntries(entries,
                    [map |-> st.map, list |-> <<>>, next |-> st.next])
        IN  AggregateFiles(Tail(files),
                [map |-> r.map,
                 lists |-> Append(st.lists, r.list),
                 next |-> r.next])

\* getProperties(files) run with this.frontmatterLists = lists:
\* [props: the returned list, lists: this.frontmatterLists after, next]
getProperties(files, lists) ==
    LET r == AggregateFiles(files, [map |-> <<>>, lists |-> lists, next |-> nextId])
    IN  [props |-> [j \in 1..Len(r.map) |->
                        [id |-> r.map[j].id,
                         key |-> r.map[j].key,
                         value |-> r.map[j].value,
                         type |-> Join(r.map[j].types, " | ")]],
         lists |-> r.lists,
         next |-> r.next]

----------------------------------------------------------------------------
(* Replay: what one file is given *)

\* this.frontmatterLists[i]: undefined past the end of the array
Undefined == [defined |-> FALSE, list |-> <<>>]

SnapshotAt(lists, i) ==
    IF i \in 1..Len(lists) THEN [defined |-> TRUE, list |-> lists[i]] ELSE Undefined

\* a lookup that falls back to the file's first snapshot entry
FoundOrFirst(list, prop) ==
    IF \E j \in 1..Len(list) : list[j].id = prop.id
    THEN list[CHOOSE j \in 1..Len(list) :
                /\ list[j].id = prop.id
                /\ \A k \in 1..(j - 1) : list[k].id # prop.id]
    ELSE IF list # <<>> THEN list[1] ELSE prop

\* a lookup by key name: frontmatterList.find(fm => fm.key === prop.key) || prop
FoundByKey(list, prop) ==
    IF \E j \in 1..Len(list) : list[j].key = prop.key
    THEN list[CHOOSE j \in 1..Len(list) :
                /\ list[j].key = prop.key
                /\ \A k \in 1..(j - 1) : list[k].key # prop.key]
    ELSE prop

\* frontmatterList.find(fm => fm.id === prop.id) || prop
Found(list, prop) ==
    IF \E j \in 1..Len(list) : list[j].id = prop.id
    THEN list[CHOOSE j \in 1..Len(list) :
                /\ list[j].id = prop.id
                /\ \A k \in 1..(j - 1) : list[k].id # prop.id]
    ELSE prop

\* propertyList.forEach(prop => frontmatter[prop.key] = found.value) on the
\* emptied frontmatter object (main.ts)
RECURSIVE AssignAll(_, _, _)
AssignAll(props, list, obj) ==
    IF props = <<>> THEN obj
    ELSE AssignAll(Tail(props), list,
                   ObjectSet(obj, Head(props).key, Found(list, Head(props)).value))

\* propertyList.map(prop => ...) of part_001: the key and the value found, in
\* the order of the working list
RenderPairs(props, list) ==
    [j \in 1..Len(props) |->
        [key |-> props[j].key, value |-> Found(list, props[j]).value]]

\* a callback that patches the frontmatter object instead of emptying it
KeepAllKeys(obj) == obj

\* Object.keys(frontmatter).forEach(key => delete frontmatter[key])
DeleteAllKeys(obj) == SelectSeq(obj, LAMBDA e : FALSE)

\* the callback main.ts gives processFrontMatter, run on the file's own
\* frontmatter object: the object after it
Callback(frontmatter, props, list) ==
    AssignAll(props, list, DeleteAllKeys(frontmatter))

\* the [key, value] pairs a replay of props against the snapshot `list` gives
\* a file whose frontmatter object is `frontmatter`
Emitted(frontmatter, props, list) ==
    IF build = "main" THEN Callback(frontmatter, props, list)
    ELSE RenderPairs(props, list)

\* the read of .find on undefined throws a TypeError as soon as there is a
\* property to look up
Throws(props, snap) == ~snap.defined /\ props # <<>>

----------------------------------------------------------------------------
(* part_001: the text written by updateMarkdownFiles *)

\* /^\[\[.*\]\]$/  ('.' does not match a line break)
wikiLinkPattern(s) ==
    /\ Len(s) >= 4
    /\ s[1] = "[" /\ s[2] = "["
    /\ s[Len(s) - 1] = "]" /\ s[Len(s)] = "]"
    /\ \A j \in 1..Len(s) : s[j] # "\n"

\* v.replace(/"/g, '\\"')
RECURSIVE EscapeQuotes(_)
EscapeQuotes(s) ==
    IF s = <<>> THEN <<>>
    ELSE (IF Head(s) = "\"" THEN <<"\\", "\"">> ELSE <<Head(s)>>)
         \o EscapeQuotes(Tail(s))

DigitChar(d) ==
    CASE d = 0 -> "0" [] d = 1 -> "1" [] d = 2 -> "2" [] d = 3 -> "3"
      [] d = 4 -> "4" [] d = 5 -> "5" [] d = 6 -> "6" [] d = 7 -> "7"
      [] d = 8 -> "8" [] d = 9 -> "9"

RECURSIVE NumberText(_)
NumberText(n) ==
    IF n < 10 THEN <<DigitChar(n)>>
    ELSE NumberText(n \div 10) \o <<DigitChar(n % 10)>>

\* the string a template literal, or RegExp.test, makes of a value: an array
\* nested in a value gives its elements joined by commas, null among them
\* giving nothing; a Date gives its text in the local time zone, one token here
RECURSIVE ToText(_)
ToText(value) ==
    CASE value.kind = "null" -> <<"n", "u", "l", "l">>
      [] value.kind = "number" -> NumberText(value.num)
      [] value.kind = "boolean" ->
            IF value.bool THEN <<"t", "r", "u", "e">> ELSE <<"f", "a", "l", "s", "e">>
      [] value.kind = "string" -> value.str
      [] value.kind = "array" ->
            IF value.items = <<>> THEN <<>>
            ELSE LET head == IF Head(value.items).kind = "null" THEN <<>>
                             ELSE ToText(Head(value.items))
                 IN  IF Len(value.items) = 1 THEN head
                     ELSE head \o <<",">> \o ToText(Arr(Tail(value.items)))
      [] value.kind = "dateobject" -> <<"Fri Jan 05 2024 00:00:00 GMT+0000">>

RECURSIVE StringifyItems(_)
StringifyItems(items) ==
    IF items = <<>> THEN <<>>
    ELSE LET v == ToText(Head(items))
         IN  (IF wikiLinkPattern(v)
              THEN <<"\n", " ", " ", "-", " ", "\"">> \o EscapeQuotes(v) \o <<"\"">>
              ELSE <<"\n", " ", " ", "-", " ">> \o v)
             \o StringifyItems(Tail(items))

\* `${this.stringifyValue(value)}`
stringifyValue(value) ==
    IF value.kind = "array" THEN StringifyItems(value.items) ELSE ToText(value)

\* content.split('---'): the pieces between the separator tokens
RECURSIVE Split(_, _)
Split(content, piece) ==
    IF content = <<>> THEN <<piece>>
    ELSE IF Head(content) = "---" THEN <<piece>> \o Split(Tail(content), <<>>)
    ELSE Split(Tail(content), Append(piece, Head(content)))

\* pieces.join('---')
RECURSIVE JoinPieces(_)
JoinPieces(pieces) ==
    IF pieces = <<>> THEN <<>>
    ELSE IF Len(pieces) = 1 THEN pieces[1]
    ELSE pieces[1] \o <<"---">> \o JoinPieces(Tail(pieces))

\* content.split('---').slice(2).join('---').trim()
NewContent(content) ==
    LET pieces == Split(content, <<>>)
    IN  trim(JoinPieces(SubSeq(pieces, 3, Len(pieces))))

\* the text of a file: its metadata block between two separator lines (the
\* block's own text is the single token "yaml"), then its body
Content(doc) ==
    IF doc.hasFm THEN <<"---", "\n", "yaml", "\n", "---", "\n">> \o doc.body
    ELSE doc.body

\* the value the metadata cache holds for a scalar written as `key: text`
ParseScalar(text) ==
    IF text = <<>> \/ text = <<"n", "u", "l", "l">> THEN Null
    ELSE IF text = <<"t", "r", "u", "e">> THEN Bool(TRUE)
    ELSE IF text = <<"f", "a", "l", "s", "e">> THEN Bool(FALSE)
    ELSE IF AllDigits(text) THEN Num(ToNumber(text))
    ELSE IF wikiLinkPattern(text)
    THEN Arr(<<Arr(<<Str(SubSeq(text, 3, Len(text) - 2))>>)>>)
    ELSE Str(text)

\* the value the metadata cache holds for a property the replay wrote: the
\* entries of a list are read back one by one, a scalar is parsed from its
\* text, and so is the empty text written for a list without entries
ParseWritten(value) ==
    IF value.kind = "array" /\ value.items # <<>>
    THEN Arr([j \in 1..Len(value.items) |->
                LET v == ToText(value.items[j])
                IN  IF wikiLinkPattern(v) THEN Str(v) ELSE ParseScalar(v)])
    ELSE ParseScalar(stringifyValue(value))

----------------------------------------------------------------------------
(* The vault and the inputs of the user *)

\* the markdown files of the vault, in the order the host lists them
AllFiles == [f \in 1..Cardinality(DOMAIN vault) |-> f]

kA == <<"a">>
kB == <<"b">>

\* a note without a metadata block
DocPlain == [hasFm |-> FALSE, fm |-> <<>>, body |-> <<"x">>]
\* a note whose body holds a '---' separator line
DocA == [hasFm |-> TRUE,
         fm |-> <<[key |-> kA, value |-> Num(1)]>>,
         body |-> <<"x", "\n", "---", "\n", "y">>]
\* a note that ends with a line break
DocAB == [hasFm |-> TRUE,
          fm |-> <<[key |-> kA, value |-> Str(<<"x">>)],
                   [key |-> kB, value |-> Num(2)]>>,
          body |-> <<"y", "\n">>]

\* the vault: three notes in one folder, the last two carrying the tag
Notes == <<DocPlain, DocA, DocAB>>

\* folder.children of the folders the suggest modal offers
getFilesByFolder(folder) == IF folder = "notes" THEN AllFiles ELSE <<>>
Folders == {"notes", "empty"}

\* the markdown files that carry the tag: every file but the first
getFilesByTag(tag) == SubSeq(AllFiles, 2, Len(AllFiles))
Tags == {"#db"}

\* what the user types into the add and rename inputs
NameInputs == {<<>>, <<"a">>, <<" ", "a">>, <<"1">>}

\* a list section that exempts no key from rename
internalpropertyListEmpty == {}

\* internalpropertyList: the keys given no rename button
internalpropertyList ==
    {<<"t", "a", "g", "s">>,
     <<"a", "l", "i", "a", "s", "e", "s">>,
     <<"c", "s", "s", "c", "l", "a", "s", "s", "e", "s">>}

\* the record of an edit gesture
Edit(op, name, id, j, ok) == [op |-> op, name |-> name, id |-> id, j |-> j, ok |-> ok]
NoEdit == Edit("none", <<>>, 0, 0, FALSE)

----------------------------------------------------------------------------
(* The state after the plugin has loaded *)

Init ==
    /\ build \in {"main", "part1"}
    /\ typed = NameInputs
    /\ vault = Notes
    /\ frontmatterLists = <<>>
    /\ nextId = 1
    /\ modal = "none"
    /\ fileList = <<>>
    /\ propertyList = <<>>
    /\ addShown = FALSE
    /\ saveOffered = FALSE
    /\ captured = <<>>
    /\ replays = <<>>
    /\ last = NoEdit
    /\ gestures = 0

----------------------------------------------------------------------------
(* The modal *)

\* a save section that shows the save button whatever was selected
RefreshViewSaveAlways(files, lists) ==
    /\ addShown' = (addShown \/ Len(files) > 0)
    /\ saveOffered' = TRUE

\* refreshView: the add section is rendered once the file list is not empty
\* (and never removed), the save button follows plugin.frontmatterLists.length
RefreshView(files, lists) ==
    /\ addShown' = (addShown \/ Len(files) > 0)
    /\ saveOffered' = (Len(lists) > 0)

\* new DatabasePropertiesModal(...).open(): onOpen
OpenModal ==
    /\ modal = "none"
    /\ modal' = "open"
    /\ fileList' = <<>>
    /\ propertyList' = <<>>
    /\ addShown' = FALSE
    /\ saveOffered' = (Len(frontmatterLists) > 0)
    /\ captured' = <<>>
    /\ last' = NoEdit
    /\ UNCHANGED <<build, typed, vault, frontmatterLists, nextId, replays, gestures>>

\* the fields of a modal that was closed: the object is never opened again
ModalGone ==
    /\ modal' = "none"
    /\ fileList' = <<>>
    /\ propertyList' = <<>>
    /\ addShown' = FALSE
    /\ saveOffered' = FALSE
    /\ captured' = <<>>
    /\ last' = NoEdit

\* the close button, or the modal dismissed
CloseModal ==
    /\ modal = "open"
    /\ ModalGone
    /\ UNCHANGED <<build, typed, vault, frontmatterLists, nextId, replays, gestures>>

\* the selection callbacks: this.fileList = files; await this.initializeView()
InitializeView(files) ==
    LET r == getProperties(files, <<>>)
    IN  /\ modal = "open"
        /\ gestures < MaxGestures
        /\ gestures' = gestures + 1
        /\ fileList' = files
        /\ frontmatterLists' = r.lists
        /\ propertyList' = r.props
        /\ nextId' = r.next
        /\ captured' = r.lists
        /\ last' = NoEdit
        /\ RefreshView(files, r.lists)
        /\ UNCHANGED <<build, typed, vault, modal, replays>>

SelectByFolder == \E folder \in Folders : InitializeView(getFilesByFolder(folder))

SelectByTag == \E tag \in Tags : InitializeView(getFilesByTag(tag))

\* a check that looks at the first entry only
KeyTakenFirst(props, name) == props # <<>> /\ props[1].key = name

\* this.propertyList.some(p => p.key === name)
KeyTaken(props, name) == \E j \in 1..Len(props) : props[j].key = name

\* the add input changed to `input` (newAddName), then addNewProperty()
\* an add that does not test the trimmed name for emptiness
addNewPropertyUnchecked(input) ==
    LET name == trim(input)
    IN  /\ modal = "open"
        /\ addShown
        /\ gestures < MaxGestures
        /\ gestures' = gestures + 1
        /\ IF ~KeyTaken(propertyList, name)
           THEN /\ propertyList' = Append(propertyList, NewProperty(nextId, name))
                /\ nextId' = nextId + 1
                /\ last' = Edit("add", input, nextId, 0, TRUE)
                /\ RefreshView(fileList, frontmatterLists)
           ELSE /\ last' = Edit("add", input, 0, 0, FALSE)
                /\ UNCHANGED <<propertyList, nextId, addShown, saveOffered>>
        /\ UNCHANGED <<build, typed, vault, frontmatterLists, modal, fileList, captured,
                       replays>>

\* an add that tests the trimmed name and pushes the name as typed:
\* key: this.newAddName
addNewPropertyAsTyped(input) ==
    LET name == trim(input)
    IN  /\ modal = "open"
        /\ addShown
        /\ gestures < MaxGestures
        /\ gestures' = gestures + 1
        /\ IF name # <<>> /\ ~KeyTaken(propertyList, name)
           THEN /\ propertyList' = Append(propertyList, NewProperty(nextId, input))
                /\ nextId' = nextId + 1
                /\ last' = Edit("add", input, nextId, 0, TRUE)
                /\ RefreshView(fileList, frontmatterLists)
           ELSE /\ last' = Edit("add", input, 0, 0, FALSE)
                /\ UNCHANGED <<propertyList, nextId, addShown, saveOffered>>
        /\ UNCHANGED <<build, typed, vault, frontmatterLists, modal, fileList, captured,
                       replays>>

\* addNewProperty with this.newAddName = input
addNewProperty(input) ==
    LET name == trim(input)
    IN  /\ modal = "open"
        /\ addShown
        /\ gestures < MaxGestures
        /\ gestures' = gestures + 1
        /\ IF name # <<>> /\ ~KeyTaken(propertyList, name)
           THEN /\ propertyList' = Append(propertyList, NewProperty(nextId, name))
                /\ nextId' = nextId + 1
                /\ last' = Edit("add", input, nextId, 0, TRUE)
                /\ RefreshView(fileList, frontmatterLists)
           ELSE /\ last' = Edit("add", input, 0, 0, FALSE)
                /\ UNCHANGED <<propertyList, nextId, addShown, saveOffered>>
        /\ UNCHANGED <<build, typed, vault, frontmatterLists, modal, fileList, captured,
                       replays>>

AddProperty == \E input \in typed : addNewProperty(input)

\* a rename on entries the working list shares with the snapshots: the key
\* changes in every snapshot entry of the same id too
onRenameShared(j, name) ==
    /\ modal = "open"
    /\ j \in 1..Len(propertyList)
    /\ propertyList[j].key \notin internalpropertyList
    /\ gestures < MaxGestures
    /\ gestures' = gestures + 1
    /\ IF name # <<>> /\ ~KeyTaken(propertyList, name)
       THEN /\ propertyList' = [propertyList EXCEPT ![j].key = name]
            /\ frontmatterLists' =
                  [i \in 1..Len(frontmatterLists) |->
                     [k \in 1..Len(frontmatterLists[i]) |->
                        IF frontmatterLists[i][k].id = propertyList[j].id
                        THEN [frontmatterLists[i][k] EXCEPT !.key = name]
                        ELSE frontmatterLists[i][k]]]
            /\ last' = Edit("rename", name, propertyList[j].id, j, TRUE)
            /\ RefreshView(fileList, frontmatterLists)
       ELSE /\ last' = Edit("rename", name, propertyList[j].id, j, FALSE)
            /\ UNCHANGED <<propertyList, frontmatterLists, addShown, saveOffered>>
    /\ UNCHANGED <<build, typed, vault, nextId, modal, fileList,
                   captured, replays>>

\* a rename that replaces the entry by a new one of the new name, as an add
\* would create it: the identifier is kept, type and value are reset
onRenameReset(j, name) ==
    /\ modal = "open"
    /\ j \in 1..Len(propertyList)
    /\ propertyList[j].key \notin internalpropertyList
    /\ gestures < MaxGestures
    /\ gestures' = gestures + 1
    /\ IF name # <<>> /\ ~KeyTaken(propertyList, name)
       THEN /\ propertyList' =
                  [propertyList EXCEPT ![j] = NewProperty(propertyList[j].id, name)]
            /\ last' = Edit("rename", name, propertyList[j].id, j, TRUE)
            /\ RefreshView(fileList, frontmatterLists)
       ELSE /\ last' = Edit("rename", name, propertyList[j].id, j, FALSE)
            /\ UNCHANGED <<propertyList, addShown, saveOffered>>
    /\ UNCHANGED <<build, typed, vault, frontmatterLists, nextId, modal, fileList,
                   captured, replays>>

\* the pencil button of entry j, offered unless its key is an internal one,
\* and the rename modal confirmed with `name`
onRename(j, name) ==
    /\ modal = "open"
    /\ j \in 1..Len(propertyList)
    /\ propertyList[j].key \notin internalpropertyList
    /\ gestures < MaxGestures
    /\ gestures' = gestures + 1
    /\ IF name # <<>> /\ ~KeyTaken(propertyList, name)
       THEN /\ propertyList' = [propertyList EXCEPT ![j].key = name]
            /\ last' = Edit("rename", name, propertyList[j].id, j, TRUE)
            /\ RefreshView(fileList, frontmatterLists)
       ELSE /\ last' = Edit("rename", name, propertyList[j].id, j, FALSE)
            /\ UNCHANGED <<propertyList, addShown, saveOffered>>
    /\ UNCHANGED <<build, typed, vault, frontmatterLists, nextId, modal, fileList,
                   captured, replays>>

RenameProperty ==
    \E j \in 1..Len(propertyList) : \E name \in typed : onRename(j, name)

\* propertyList.filter(p => p !== prop) for the entry at j
RemoveAt(props, j) == SubSeq(props, 1, j - 1) \o SubSeq(props, j + 1, Len(props))

\* the trash button of entry j, confirmed
onDelete(j) ==
    /\ modal = "open"
    /\ j \in 1..Len(propertyList)
    /\ gestures < MaxGestures
    /\ gestures' = gestures + 1
    /\ propertyList' = RemoveAt(propertyList, j)
    /\ last' = Edit("delete", propertyList[j].key, propertyList[j].id, j, TRUE)
    /\ RefreshView(fileList, frontmatterLists)
    /\ UNCHANGED <<build, typed, vault, frontmatterLists, nextId, modal, fileList,
                   captured, replays>>

DeleteProperty == \E j \in 1..Len(propertyList) : onDelete(j)

\* propertyList.findIndex(p => p.id === draggedId), 0 for -1
IndexOfId(props, id) ==
    IF \E j \in 1..Len(props) : props[j].id = id
    THEN CHOOSE j \in 1..Len(props) :
            /\ props[j].id = id
            /\ \A k \in 1..(j - 1) : props[k].id # id
    ELSE 0

\* splice(from, 1) then splice(to, 0, item)
\* a drop that overwrites the target: splice(to, 1, item) without the removal
MoveOverwrite(props, from, to) == [props EXCEPT ![to] = props[from]]

\* a drop that lowers the target index by one when the entry moves down:
\* splice(to > from ? to - 1 : to, 0, item)
MoveAdjusted(props, from, to) ==
    LET rest == RemoveAt(props, from)
        at == IF to > from THEN to - 1 ELSE to
    IN  SubSeq(rest, 1, at - 1) \o <<props[from]>> \o SubSeq(rest, at, Len(rest))

Move(props, from, to) ==
    LET rest == RemoveAt(props, from)
    IN  SubSeq(rest, 1, to - 1) \o <<props[from]>> \o SubSeq(rest, to, Len(rest))

\* a drop of the dragged identifier on the row at dropIndex; identifier 0 is
\* drag data that names no entry
onDrop(draggedId, dropIndex) ==
    LET draggedIndex == IndexOfId(propertyList, draggedId)
    IN  /\ modal = "open"
        /\ dropIndex \in 1..Len(propertyList)
        /\ gestures < MaxGestures
        /\ gestures' = gestures + 1
        /\ IF draggedIndex # 0 /\ draggedIndex # dropIndex
           THEN /\ propertyList' = Move(propertyList, draggedIndex, dropIndex)
                /\ last' = Edit("drop", <<>>, draggedId, dropIndex, TRUE)
                /\ RefreshView(fileList, frontmatterLists)
           ELSE /\ last' = Edit("drop", <<>>, draggedId, dropIndex, FALSE)
                /\ UNCHANGED <<propertyList, addShown, saveOffered>>
        /\ UNCHANGED <<build, typed, vault, frontmatterLists, nextId, modal, fileList,
                       captured, replays>>

ReorderProperty ==
    \E id \in {propertyList[j].id : j \in 1..Len(propertyList)} \cup {0} :
        \E dropIndex \in 1..Len(propertyList) : onDrop(id, dropIndex)

----------------------------------------------------------------------------
(* The replay: batchWriteFrontmatter (main.ts), updateMarkdownFiles (part_001) *)

NoDoc == [hasFm |-> FALSE, fm |-> <<>>, body |-> <<>>]

\* the notice: shown with "k / n", or hidden
Progress(k) == [shown |-> TRUE, k |-> k]
Hidden(k) == [shown |-> FALSE, k |-> k]

\* a loop that ends one file early: i < length - 1
IterationShort(rp, i, lists) ==
    IF i >= Len(rp.files)
    THEN [rp EXCEPT !.i = i, !.phase = "done", !.notice = Hidden(rp.notice.k),
                    !.cur = Undefined, !.pending = NoDoc]
    ELSE IF build = "main"
    THEN [rp EXCEPT !.i = i, !.phase = "writing", !.notice = Progress(i),
                    !.cur = SnapshotAt(lists, i), !.pending = NoDoc]
    ELSE [rp EXCEPT !.i = i, !.phase = "reading", !.notice = Progress(i),
                    !.cur = Undefined, !.pending = NoDoc]

\* the top of loop iteration i of a replay over n files. main.ts reads
\* this.frontmatterLists[i] here and calls processFrontMatter; part_001 first
\* awaits vault.read.
Iteration(rp, i, lists) ==
    IF i > Len(rp.files)
    THEN [rp EXCEPT !.i = i, !.phase = "done", !.notice = Hidden(rp.notice.k),
                    !.cur = Undefined, !.pending = NoDoc]
    ELSE IF build = "main"
    THEN [rp EXCEPT !.i = i, !.phase = "writing", !.notice = Progress(i),
                    !.cur = SnapshotAt(lists, i), !.pending = NoDoc]
    ELSE [rp EXCEPT !.i = i, !.phase = "reading", !.notice = Progress(i),
                    !.cur = Undefined, !.pending = NoDoc]

\* the call of the replay by the save callback, up to its first await
StartReplay(files, props, lists, snaps) ==
    Iteration([files |-> files, props |-> props, snaps |-> snaps, i |-> 1,
               phase |-> "start", cur |-> Undefined, pending |-> NoDoc,
               written |-> <<>>, notice |-> Progress(0), rejection |-> "none"],
              1, lists)

\* a write has rejected or the callback has thrown: the replay's promise and
\* with it the save callback's promise reject. The confirm button has called
\* onConfirm() without awaiting it, so nothing handles the rejection; the
\* notice is left as it is.
Rejected(rp) == [rp EXCEPT !.phase = "failed", !.rejection = "unhandled"]

\* the save button, confirmed: this.close(), then the replay is started
Save ==
    /\ modal = "open"
    /\ saveOffered
    /\ gestures < MaxGestures
    /\ gestures' = gestures + 1
    /\ replays' = Append(replays,
                    StartReplay(fileList, propertyList, frontmatterLists, captured))
    /\ ModalGone
    /\ UNCHANGED <<build, typed, vault, frontmatterLists, nextId>>

\* the metadata block the host stores for the pairs written
StoredBlock(pairs) ==
    IF build = "main" THEN pairs
    ELSE [j \in 1..Len(pairs) |->
            [key |-> pairs[j].key, value |-> ParseWritten(pairs[j].value)]]

\* part_001: vault.read(file) has resolved; the snapshot is looked up, the new
\* text is built and vault.modify is called
ReadDone(r) ==
    LET rp == replays[r]
        file == rp.files[rp.i]
        snap == SnapshotAt(frontmatterLists, rp.i)
        pairs == Emitted(vault[file].fm, rp.props, snap.list)
    IN  /\ rp.phase = "reading"
        /\ replays' = [replays EXCEPT ![r] =
              IF Throws(rp.props, snap)
              THEN Rejected([rp EXCEPT !.cur = snap])
              ELSE [rp EXCEPT !.phase = "writing", !.cur = snap,
                      !.pending = [hasFm |-> Len(pairs) > 0,
                                   fm |-> StoredBlock(pairs),
                                   body |-> NewContent(Content(vault[file]))]]]
        /\ UNCHANGED <<build, typed, vault, frontmatterLists, nextId, modal, fileList,
                       propertyList, addShown, saveOffered, captured,
                       last, gestures>>

\* the write of file i has resolved: in main.ts the host has run the callback
\* on the file's frontmatter object and stored it, in part_001 it has stored
\* the new text; the loop goes on with i + 1
WriteDone(r) ==
    LET rp == replays[r]
        file == rp.files[rp.i]
        pairs == Emitted(vault[file].fm, rp.props, rp.cur.list)
        doc == IF build = "main"
               THEN [hasFm |-> Len(pairs) > 0, fm |-> StoredBlock(pairs),
                     body |-> vault[file].body]
               ELSE rp.pending
        done == [rp EXCEPT !.written =
                    Append(@, [file |-> file, pairs |-> pairs, snap |-> rp.cur,
                               before |-> vault[file], after |-> doc])]
    IN  /\ rp.phase = "writing"
        /\ IF Throws(rp.props, rp.cur)
           THEN /\ replays' = [replays EXCEPT ![r] = Rejected(rp)]
                /\ UNCHANGED vault
           ELSE /\ vault' = [vault EXCEPT ![file] = doc]
                /\ replays' = [replays EXCEPT ![r] =
                                Iteration(done, rp.i + 1, frontmatterLists)]
        /\ UNCHANGED <<build, typed, frontmatterLists, nextId, modal, fileList,
                       propertyList, addShown, saveOffered, captured,
                       last, gestures>>

\* a loop that catches the rejection and goes on with the next file
WriteFailsSkips(r) ==
    /\ replays[r].phase \in {"reading", "writing"}
    /\ replays' = [replays EXCEPT ![r] =
                    Iteration(replays[r], replays[r].i + 1, frontmatterLists)]
    /\ UNCHANGED <<build, typed, vault, frontmatterLists, nextId, modal, fileList,
                   propertyList, addShown, saveOffered, captured,
                   last, gestures>>

\* the host rejects the read or the write of file i: the replay ends there
WriteFails(r) ==
    /\ replays[r].phase \in {"reading", "writing"}
    /\ replays' = [replays EXCEPT ![r] = Rejected(replays[r])]
    /\ UNCHANGED <<build, typed, vault, frontmatterLists, nextId, modal, fileList,
                   propertyList, addShown, saveOffered, captured,
                   last, gestures>>

ReplayReads == \E r \in 1..Len(replays) : ReadDone(r)
ReplayWrites == \E r \in 1..Len(replays) : WriteDone(r)
ReplayFails == \E r \in 1..Len(replays) : WriteFails(r)

----------------------------------------------------------------------------

Next ==
    \/ OpenModal
    \/ CloseModal
    \/ SelectByFolder
    \/ SelectByTag
    \/ AddProperty
    \/ RenameProperty
    \/ DeleteProperty
    \/ ReorderProperty
    \/ Save
    \/ ReplayReads
    \/ ReplayWrites
    \/ ReplayFails

Spec == Init /\ [][Next]_vars

----------------------------------------------------------------------------
(* Other vaults: the film records of the README, and a vault whose tagged *)
(* notes are a note with the reserved key tags and a note without metadata *)

kTitle == <<"T", "i", "t", "l", "e">>
kYear == <<"Y", "e", "a", "r">>
kDirector == <<"D", "i", "r", "e", "c", "t", "o", "r">>
kScore == <<"S", "c", "o", "r", "e">>
kTags == <<"t", "a", "g", "s">>
kC == <<"c">>

Film1 == [hasFm |-> TRUE,
          fm |-> <<[key |-> kTitle, value |-> Str(<<"A">>)],
                   [key |-> kYear, value |-> Num(1)]>>,
          body |-> <<"x">>]
Film2 == [hasFm |-> TRUE,
          fm |-> <<[key |-> kTitle, value |-> Str(<<"B">>)],
                   [key |-> kYear, value |-> Num(2)],
                   [key |-> kDirector, value |-> Str(<<"d">>)]>>,
          body |-> <<"x">>]
Film3 == [hasFm |-> TRUE,
          fm |-> <<[key |-> kTitle, value |-> Str(<<"C">>)],
                   [key |-> kDirector, value |-> Str(<<"e">>)]>>,
          body |-> <<"x">>]
Films == <<Film1, Film2, Film3>>

DocTags == [hasFm |-> TRUE,
            fm |-> <<[key |-> kTags, value |-> Arr(<<Str(<<"d", "b">>)>>)],
                     [key |-> kA, value |-> Num(1)]>>,
            body |-> <<"x">>]
Tagged == <<DocTags, DocPlain>>

InitVaults ==
    /\ build \in {"main", "part1"}
    /\ \/ vault = Films /\ typed = {kScore}
       \/ vault = Tagged /\ typed = {kTags, kC}
    /\ frontmatterLists = <<>>
    /\ nextId = 1
    /\ modal = "none"
    /\ fileList = <<>>
    /\ propertyList = <<>>
    /\ addShown = FALSE
    /\ saveOffered = FALSE
    /\ captured = <<>>
    /\ replays = <<>>
    /\ last = NoEdit
    /\ gestures = 0

SpecVaults == InitVaults /\ [][Next]_vars

----------------------------------------------------------------------------
(* Vaults of a note without metadata and a tagged note with one property, *)
(* of every kind of value the host hands to the plugin *)

DateText == <<"2", "0", "2", "4", "-", "0", "1", "-", "0", "5">>
DateTimeText == DateText \o <<" ", "1", "0", ":", "3", "0">>
LinkText == <<"[", "[", "x", "]", "]">>

PropertyValues ==
    {Null,
     Arr(<<>>), Arr(<<Str(LinkText), Str(<<"y">>)>>), Arr(<<Num(1)>>),
     Bool(TRUE), Bool(FALSE),
     Num(7),
     DateObj(0),
     Str(DateText), Str(DateTimeText),
     Str(<<>>), Str(<<"x">>), Str(LinkText),
     Str(DateText \o <<"x">>), Str(DateTimeText \o <<":", "0", "0">>),
     Str(<<"2", "0", "2", "4", "-", "1", "-", "5">>)}

ValueDoc(value) ==
    [hasFm |-> TRUE, fm |-> <<[key |-> kA, value |-> value]>>, body |-> <<"x">>]

InitValues ==
    /\ build \in {"main", "part1"}
    /\ typed = {kB}
    /\ vault \in {<<DocPlain, ValueDoc(value)>> : value \in PropertyValues}
    /\ frontmatterLists = <<>>
    /\ nextId = 1
    /\ modal = "none"
    /\ fileList = <<>>
    /\ propertyList = <<>>
    /\ addShown = FALSE
    /\ saveOffered = FALSE
    /\ captured = <<>>
    /\ replays = <<>>
    /\ last = NoEdit
    /\ gestures = 0

SpecValues == InitValues /\ [][Next]_vars

----------------------------------------------------------------------------
(* Properties *)

KeySeq(pairs) == [j \in 1..Len(pairs) |-> pairs[j].key]
KeySet(pairs) == {pairs[j].key : j \in 1..Len(pairs)}
PairSet(pairs) == {[key |-> pairs[j].key, value |-> pairs[j].value] : j \in 1..Len(pairs)}
Ids(list) == {list[j].id : j \in 1..Len(list)}
IdKeyPairs(list) == {[id |-> list[j].id, key |-> list[j].key] : j \in 1..Len(list)}
SnapIds(snaps) == UNION {Ids(snaps[i]) : i \in 1..Len(snaps)}
SnapKeys(snaps) == UNION {KeySet(snaps[i]) : i \in 1..Len(snaps)}

UniqueKeys(list) ==
    \A j, k \in 1..Len(list) : list[j].key = list[k].key => j = k

\* the written records of all replays, each with its replay
Writes ==
    UNION {{[rp |-> replays[r], k |-> k, w |-> replays[r].written[k]] :
                k \in 1..Len(replays[r].written)} : r \in 1..Len(replays)}

\* what the file's own snapshot `own` says entry p is to be written with
OwnPair(own, p) ==
    [key |-> p.key,
     value |-> IF \E j \in 1..Len(own) : own[j].id = p.id
               THEN (CHOOSE e \in {own[j] : j \in 1..Len(own)} : e.id = p.id).value
               ELSE p.value]

\* C1: key names in the working list are unique in every state, and an Add
\* or a Rename whose name is already the key of an entry leaves the list as
\* it was.
C1_UniqueKeys ==
    [][/\ UniqueKeys(propertyList')
       /\ (/\ AddProperty \/ RenameProperty
           /\ last'.name \in KeySet(propertyList)
           /\ last'.op = "add" => last'.name = trim(last'.name))
          => propertyList' = propertyList]_vars

\* a Rename to the name of another entry has been rejected
C1_Witness ==
    /\ last.op = "rename"
    /\ ~last.ok
    /\ Len(propertyList) >= 2
    /\ \E j \in 1..Len(propertyList) :
          j # last.j /\ propertyList[j].key = last.name

\* C7: a reorder leaves the set of (id, key) entries and, for every document,
\* the set of key/value pairs a replay writes unchanged.
C7_ReorderKeepsContent ==
    [][ReorderProperty =>
          /\ Len(propertyList') = Len(propertyList)
          /\ IdKeyPairs(propertyList') = IdKeyPairs(propertyList)
          /\ frontmatterLists' = frontmatterLists
          /\ \A i \in 1..Len(frontmatterLists) :
                PairSet(Emitted(<<>>, propertyList', frontmatterLists[i]))
                  = PairSet(Emitted(<<>>, propertyList, frontmatterLists[i]))]_vars

\* a drop has moved an entry of a list of two or more over a file set
C7_Witness ==
    /\ last.op = "drop"
    /\ last.ok
    /\ Len(propertyList) >= 2
    /\ Len(frontmatterLists) >= 2
    /\ \E j \in 1..Len(propertyList) :
          propertyList[j].id = last.id /\ j = last.j /\ j # 1

\* C4: a replay writes every document exactly the keys of the working list,
\* so that a deleted entry's key is in no document afterwards, whether the
\* document had the key or not.
C4_DeleteErasesEverywhere ==
    \A x \in Writes :
        /\ KeySet(x.w.pairs) = KeySet(x.rp.props)
        /\ KeySet(x.w.after.fm) = KeySet(x.rp.props)

\* a replay has ended whose working list lacks an entry that one written
\* document had and another written document did not have
C4_Witness ==
    \E r \in 1..Len(replays) :
        LET rp == replays[r]
        IN  /\ rp.phase = "done"
            /\ \E k, m \in 1..Len(rp.written) :
                 \E e \in {rp.snaps[k][j] : j \in 1..Len(rp.snaps[k])} :
                    /\ rp.written[k].snap.list = rp.snaps[k]
                    /\ e.id \notin Ids(rp.props)
                    /\ e.key \in KeySet(rp.written[k].before.fm)
                    /\ e.key \notin KeySet(rp.written[k].after.fm)
                    /\ e.key \notin KeySet(rp.written[m].before.fm)
                    /\ e.key \notin KeySet(rp.written[m].after.fm)

\* C5: an entry added to the working list under a key no document of the
\* selection has is written to every document with the entry's own default
\* value.
C5_AddedGetsDefault ==
    \A x \in Writes :
        \A j \in 1..Len(x.rp.props) :
            LET p == x.rp.props[j]
            IN  (p.id \notin SnapIds(x.rp.snaps) /\ p.key \notin SnapKeys(x.rp.snaps))
                => /\ [key |-> p.key, value |-> p.value] \in PairSet(x.w.pairs)
                   /\ p.value = MapDefault

\* a replay over two or more documents has ended that wrote an added entry
C5_Witness ==
    \E r \in 1..Len(replays) :
        LET rp == replays[r]
        IN  /\ rp.phase = "done"
            /\ Len(rp.written) >= 2
            /\ \E j \in 1..Len(rp.props) :
                  /\ rp.props[j].id \notin SnapIds(rp.snaps)
                  /\ rp.props[j].key \notin SnapKeys(rp.snaps)
                  /\ \A k \in 1..Len(rp.written) :
                        rp.props[j].key \in KeySet(rp.written[k].after.fm)

\* the entries of list whose key is not the key their id has in snapshot own
Renamed(own, list) ==
    {p \in {list[j] : j \in 1..Len(list)} :
        \E e \in {own[j] : j \in 1..Len(own)} : e.id = p.id /\ e.key # p.key}

\* the replay's working list is the list aggregation gave: every id of the
\* snapshots under its snapshot key, and nothing else
ZeroEdits(rp) ==
    /\ Ids(rp.props) = SnapIds(rp.snaps)
    /\ \A i \in 1..Len(rp.snaps) : Renamed(rp.snaps[i], rp.props) = {}

\* C2: the value a replay writes for an entry in a document is the value
\* that document's own snapshot has for the entry's id, or the entry's
\* default when the snapshot has no such id; never another document's value.
C2_OwnValuesOnly ==
    \A x \in Writes :
        \A j \in 1..Len(x.rp.props) :
            OwnPair(x.rp.snaps[x.k], x.rp.props[j]) \in PairSet(x.w.pairs)

\* C3: two snapshot entries have the same id exactly when they have the same
\* key, the working list has one entry per id, and a renamed entry is written
\* to each document under the new name with the value the document had under
\* the old one.
C3_RenameByIdentity ==
    /\ \A i, m \in 1..Len(frontmatterLists) :
         \A j \in 1..Len(frontmatterLists[i]), n \in 1..Len(frontmatterLists[m]) :
            (frontmatterLists[i][j].id = frontmatterLists[m][n].id)
              = (frontmatterLists[i][j].key = frontmatterLists[m][n].key)
    /\ \A j, n \in 1..Len(propertyList) :
          propertyList[j].id = propertyList[n].id => j = n
    /\ \A x \in Writes :
          \A p \in Renamed(x.rp.snaps[x.k], x.rp.props) :
             OwnPair(x.rp.snaps[x.k], p) \in PairSet(x.w.pairs)

\* C6: a replay with no edits writes each document the key/value pairs it had
\* at aggregation time, values identical.
C6_NoEditRoundTrip ==
    \A x \in Writes :
        ZeroEdits(x.rp) =>
            PairSet(x.rp.snaps[x.k]) \subseteq PairSet(x.w.pairs)

\* C8: after a replay every document's keys are in the order of the working
\* list.
C8_SameKeyOrder ==
    \A x \in Writes :
        x.rp.phase = "done" => KeySeq(x.w.after.fm) = KeySeq(x.rp.props)

\* C9: a replay leaves the body of every document it writes as it was.
C9_BodyUnchanged ==
    \A x \in Writes : x.w.after.body = x.w.before.body

\* C10: each replay iteration uses the snapshot captured for its own document
\* in its own aggregation pass.
C10_OwnSnapshot ==
    \A x \in Writes :
        x.w.snap = [defined |-> TRUE, list |-> x.rp.snaps[x.k]]

\* C11: when a write of a replay fails the replay stops: the documents before
\* it keep what was written, no document is rolled back, and the replay
\* writes nothing more and is not taken up again.
C11_FailureStopsReplay ==
    [][/\ ReplayFails =>
            /\ vault' = vault
            /\ \E r \in 1..Len(replays) :
                  /\ replays[r].phase # "failed"
                  /\ replays'[r].phase = "failed"
                  /\ replays'[r].i = replays[r].i
                  /\ replays'[r].written = replays[r].written
       /\ \A r \in 1..Len(replays) :
            replays[r].phase = "failed" => replays'[r] = replays[r]
       /\ \A r \in 1..Len(replays') :
            replays'[r].phase = "failed" =>
                /\ replays'[r].i \in 1..Len(replays'[r].files)
                /\ Len(replays'[r].written) = replays'[r].i - 1]_vars

\* the write of the second of three documents has failed: the first keeps its
\* new metadata, the third is as it was
C11_Witness ==
    \E r \in 1..Len(replays) :
        LET rp == replays[r]
        IN  /\ rp.phase = "failed"
            /\ Len(rp.files) = 3
            /\ rp.i = 2
            /\ Len(replays) = 1
            /\ vault[rp.files[1]] = rp.written[1].after
            /\ vault[rp.files[1]] # rp.written[1].before
            /\ vault[rp.files[3]] = Notes[rp.files[3]]

\* C12: a replay that has failed has ended in an error the save flow reports.
C12_FailureSurfaced ==
    \A r \in 1..Len(replays) :
        replays[r].phase = "failed" => replays[r].rejection = "reported"

\* the name of edit e is empty or the key of an entry of list (an Add trims
\* the name first)
InvalidName(e, list) ==
    LET name == IF e.op = "add" THEN trim(e.name) ELSE e.name
    IN  name = <<>> \/ name \in KeySet(list)

\* C13: an Add or a Rename with an empty or already present name changes
\* neither the working list nor the snapshots nor any document, and the modal
\* stays as it is.
C13_InvalidEditIsNoOp ==
    [][(/\ AddProperty \/ RenameProperty
        /\ InvalidName(last', propertyList))
          => /\ propertyList' = propertyList
             /\ frontmatterLists' = frontmatterLists
             /\ captured' = captured
             /\ fileList' = fileList
             /\ vault' = vault
             /\ replays' = replays
             /\ modal' = modal]_vars

\* an Add of a name that is a key of the list once trimmed has been rejected
C13_Witness ==
    /\ modal = "open"
    /\ last.op = "add"
    /\ ~last.ok
    /\ last.name # trim(last.name)
    /\ trim(last.name) \in KeySet(propertyList)
    /\ frontmatterLists # <<>>

\* the distinct elements of seq, each at its first occurrence
RECURSIVE Distinct(_)
Distinct(seq) ==
    IF seq = <<>> THEN <<>>
    ELSE LET rest == Distinct(SubSeq(seq, 1, Len(seq) - 1))
             x == seq[Len(seq)]
         IN  IF \E j \in 1..Len(rest) : rest[j] = x THEN rest ELSE Append(rest, x)

\* the metadata block of a document as the document has it
BlockOf(doc) == IF doc.hasFm THEN doc.fm ELSE <<>>

\* the keys of the metadata blocks of files, file after file, in block order
RECURSIVE BlockKeys(_)
BlockKeys(files) ==
    IF files = <<>> THEN <<>>
    ELSE KeySeq(BlockOf(vault[Head(files)])) \o BlockKeys(Tail(files))

\* C14: a selection gives a unified list with one entry per distinct key name
\* in first-seen order (documents in input order, keys in block order) and one
\* snapshot per document, in input order, holding the document's keys with
\* their values; a document without a metadata block gives an empty snapshot.
C14_AggregationShape ==
    [][(SelectByFolder \/ SelectByTag) =>
          /\ KeySeq(propertyList') = Distinct(BlockKeys(fileList'))
          /\ Len(frontmatterLists') = Len(fileList')
          /\ \A i \in 1..Len(fileList') :
                PairSet(frontmatterLists'[i]) = PairSet(BlockOf(vault[fileList'[i]]))]_vars

\* the inferred types of the values the files have under key, file after file
RECURSIVE TypesSeen(_, _)
TypesSeen(key, files) ==
    IF files = <<>> THEN <<>>
    ELSE LET block == BlockOf(vault[Head(files)])
             here == SelectSeq(block, LAMBDA e : e.key = key)
         IN  [j \in 1..Len(here) |-> getPropertyType(here[j].value)]
               \o TypesSeen(key, Tail(files))

\* C15: the type label of a unified property is the distinct inferred types
\* of its key in the order they are first seen across the documents, joined
\* by " | ".
C15_TypeUnionOrder ==
    [][(SelectByFolder \/ SelectByTag) =>
          \A j \in 1..Len(propertyList') :
              propertyList'[j].type
                = Join(Distinct(TypesSeen(propertyList'[j].key, fileList')), " | ")]_vars

\* a selection has just given a property that three documents have, two of
\* them with the same type, under a label of two types
C15_Witness ==
    /\ modal = "open"
    /\ captured = frontmatterLists
    /\ \E j \in 1..Len(propertyList) :
         /\ Len(propertyList[j].type) = 3
         /\ \E i, m, n \in 1..Len(captured) :
              /\ i < m /\ m < n
              /\ \E e1 \in {captured[i][k] : k \in 1..Len(captured[i])},
                    e2 \in {captured[m][k] : k \in 1..Len(captured[m])},
                    e3 \in {captured[n][k] : k \in 1..Len(captured[n])} :
                    /\ e1.id = propertyList[j].id
                    /\ e2.id = e1.id /\ e3.id = e1.id
                    /\ e1.type = e2.type /\ e3.type # e1.type
                    /\ propertyList[j].type = <<e1.type, " | ", e3.type>>

\* C16: a selection that matches no document leaves the working list and the
\* snapshot array empty, raises no error and offers no save; a selection that
\* matches a document offers the save, whatever metadata the documents have.
C16_EmptySelection ==
    [][(SelectByFolder \/ SelectByTag) =>
          /\ modal' = "open"
          /\ Len(frontmatterLists') = Len(fileList')
          /\ fileList' = <<>> =>
                propertyList' = <<>> /\ frontmatterLists' = <<>> /\ ~saveOffered'
          /\ fileList' # <<>> => saveOffered']_vars

\* an empty selection has followed a selection of documents in the same modal:
\* the add section is still there, the lists are empty, no save is offered
C16_Witness ==
    /\ modal = "open"
    /\ addShown
    /\ last = NoEdit
    /\ fileList = <<>>
    /\ propertyList = <<>>
    /\ frontmatterLists = <<>>
    /\ ~saveOffered

\* C17: once a session is closed or its save has finished the plugin holds no
\* snapshots, and a modal that has made no selection of its own has an empty
\* snapshot array and offers no save.
C17_SnapshotsDiscarded ==
    /\ (/\ modal = "none"
        /\ \A r \in 1..Len(replays) : replays[r].phase \in {"done", "failed"})
          => frontmatterLists = <<>>
    /\ (modal = "open" /\ captured = <<>>)
          => frontmatterLists = <<>> /\ ~saveOffered

\* C20: the entry an accepted Add creates has the type label Text and the
\* empty string as value, and that is the value a replay writes for it in
\* every document.
C20_AddedIsText ==
    /\ (modal = "open" /\ last.op = "add" /\ last.ok) =>
          \E j \in 1..Len(propertyList) :
              /\ propertyList[j].id = last.id
              /\ propertyList[j].key = trim(last.name)
              /\ propertyList[j].type = <<"Text">>
              /\ propertyList[j].value = Str(<<>>)
    /\ \A x \in Writes :
          \A j \in 1..Len(x.rp.props) :
              x.rp.props[j].id \notin SnapIds(x.rp.snaps) =>
                  [key |-> x.rp.props[j].key, value |-> Str(<<>>)] \in PairSet(x.w.pairs)

\* C18: the film records aggregate to [Title, Year, Director]; with Year
\* deleted and Score added, the list in the order [Title, Director, Score],
\* a replay writes the first record Title with its own value, Director with
\* the entry's default and Score with the empty string, in that order,
\* without Year.
C18_FilmScenario ==
    /\ (/\ modal = "open" /\ last = NoEdit
        /\ fileList = <<1, 2, 3>>
        /\ [i \in 1..3 |-> KeySeq(captured[i])] = [i \in 1..3 |-> KeySeq(Films[i].fm)])
          => KeySeq(propertyList) = <<kTitle, kYear, kDirector>>
    /\ \A x \in Writes :
          (/\ x.k = 1
           /\ x.w.before = Film1
           /\ [i \in 1..Len(x.rp.snaps) |-> KeySeq(x.rp.snaps[i])]
                = [i \in 1..3 |-> KeySeq(Films[i].fm)]
           /\ KeySeq(x.rp.props) = <<kTitle, kDirector, kScore>>
           /\ x.rp.props[1].id \in Ids(x.rp.snaps[1])
           /\ x.rp.props[2].id \in Ids(x.rp.snaps[2]) \ Ids(x.rp.snaps[1])
           /\ x.rp.props[3].id \notin SnapIds(x.rp.snaps))
            => x.w.pairs = <<[key |-> kTitle, value |-> Str(<<"A">>)],
                             [key |-> kDirector, value |-> x.rp.props[2].value],
                             [key |-> kScore, value |-> Str(<<>>)]>>

ReservedKeys ==
    {<<"t", "a", "g", "s">>,
     <<"a", "l", "i", "a", "s", "e", "s">>,
     <<"c", "s", "s", "c", "l", "a", "s", "s", "e", "s">>}

\* C19: no step renames an entry whose key is tags, aliases or cssclasses:
\* as long as the entry is in the working list its key is the same.
C19_ReservedNotRenamed ==
    [][\A j \in 1..Len(propertyList) :
          propertyList[j].key \in ReservedKeys =>
              /\ \A name \in typed : ~onRename(j, name)
              /\ \A k \in 1..Len(propertyList') :
                    propertyList'[k].id = propertyList[j].id
                        => propertyList'[k].key = propertyList[j].key]_vars

\* an entry has been renamed while the list holds an entry with the key tags
C19_Witness ==
    /\ modal = "open"
    /\ last.op = "rename"
    /\ last.ok
    /\ \E j \in 1..Len(propertyList) :
          /\ propertyList[j].key = kTags
          /\ propertyList[j].id # last.id
          /\ propertyList[j].id \in SnapIds(captured)

\* C21: no Add, Delete, Rename or Reorder, accepted or not, changes the
\* snapshot array, and a save of a session that has aggregated documents
\* finds the snapshots as the aggregation built them.
C21_EditsKeepSnapshots ==
    [][/\ (AddProperty \/ DeleteProperty \/ RenameProperty \/ ReorderProperty)
            => frontmatterLists' = frontmatterLists /\ captured' = captured
       /\ (Save /\ captured # <<>>) => frontmatterLists = captured]_vars

\* an entry has been renamed, and the snapshots that have its id have it
\* under the old name
C21_Witness ==
    /\ modal = "open"
    /\ last.op = "rename"
    /\ last.ok
    /\ frontmatterLists = captured
    /\ \E i \in 1..Len(frontmatterLists) :
         \E k \in 1..Len(frontmatterLists[i]) :
            /\ frontmatterLists[i][k].id = last.id
            /\ frontmatterLists[i][k].key # last.name

\* the replay record rp is at one place of its loop: the documents before
\* position i are written, in file-list order, and no other
InSequence(rp) ==
    /\ \A k \in 1..Len(rp.written) :
          k <= Len(rp.files) /\ rp.written[k].file = rp.files[k]
    /\ rp.phase \in {"reading", "writing", "failed"} =>
          rp.i \in 1..Len(rp.files) /\ Len(rp.written) = rp.i - 1
    /\ rp.phase = "done" =>
          rp.i = Len(rp.files) + 1 /\ Len(rp.written) = Len(rp.files)

\* the number of steps the replay record rp can still take
StepsLeft(rp) ==
    IF rp.phase \in {"done", "failed"} THEN 0
    ELSE 2 * (Len(rp.files) - rp.i + 1) + (IF rp.phase = "reading" THEN 1 ELSE 0)

\* C22: a replay writes its documents one at a time in file-list order: a
\* step completes at most one write of a replay, the next write is that of the
\* next document, every step of a replay brings it nearer to its end, and a
\* replay that ends without a failure has written every document once.
C22_SequentialReplay ==
    [][/\ \A r \in 1..Len(replays') : InSequence(replays'[r])
       /\ \A r \in 1..Len(replays) :
            LET old == replays[r].written
                new == replays'[r].written
            IN  /\ replays'[r] # replays[r] =>
                      StepsLeft(replays'[r]) < StepsLeft(replays[r])
                /\ Len(new) \in {Len(old), Len(old) + 1}
                /\ SubSeq(new, 1, Len(old)) = old
                /\ Len(new) = Len(old) + 1 =>
                      /\ replays[r].phase = "writing"
                      /\ replays[r].i = Len(new)
                      /\ vault' = [vault EXCEPT ![replays[r].files[Len(new)]] =
                                                    new[Len(new)].after]]_vars

\* a replay over three documents has ended after its third write
C22_Witness ==
    \E r \in 1..Len(replays) :
        /\ replays[r].phase = "done"
        /\ Len(replays[r].files) = 3
        /\ [k \in 1..3 |-> replays[r].written[k].file] = replays[r].files

\* C23: an accepted rename changes the key of the renamed entry and nothing
\* else of the working list: the entry keeps its identifier, type, value and
\* position, the list keeps its length, every other entry is as it was; the
\* name given is not empty and was the key of no entry.
C23_RenameOneField ==
    [][(RenameProperty /\ last'.ok) =>
          LET j == last'.j
          IN  /\ last'.op = "rename"
              /\ last'.name # <<>>
              /\ ~KeyTaken(propertyList, last'.name)
              /\ j \in 1..Len(propertyList)
              /\ Len(propertyList') = Len(propertyList)
              /\ propertyList'[j].key = last'.name
              /\ propertyList'[j].id = propertyList[j].id
              /\ propertyList'[j].id = last'.id
              /\ propertyList'[j].type = propertyList[j].type
              /\ propertyList'[j].value = propertyList[j].value
              /\ \A k \in 1..Len(propertyList) :
                    k # j => propertyList'[k] = propertyList[k]]_vars

\* a rename has been accepted for the second of two entries, whose type is
\* the one the aggregation gave it
C23_Witness ==
    /\ modal = "open"
    /\ last.op = "rename"
    /\ last.ok
    /\ last.j = 2
    /\ Len(propertyList) = 2
    /\ propertyList[2].key = last.name
    /\ propertyList[2].id = last.id
    /\ propertyList[2].id \in SnapIds(frontmatterLists)
    /\ propertyList[2].type = <<"Number">>
    /\ propertyList[1].key = kA

\* the entries of list other than the one of identifier id, in list order
Without(list, id) == SelectSeq(list, LAMBDA e : e.id # id)

\* C24: a drop of an identifier the working list has, on an index other than
\* that of its entry, leaves the entry at the drop index and the other entries
\* in the order they had; a drop on the entry's own index, or of an identifier
\* the list does not have, leaves the working list as it was.
C24_ReorderPosition ==
    [][ReorderProperty =>
          LET id == last'.id
              to == last'.j
              present == \E j \in 1..Len(propertyList) : propertyList[j].id = id
              from == CHOOSE j \in 1..Len(propertyList) :
                          present => propertyList[j].id = id
          IN  /\ last'.op = "drop"
              /\ to \in 1..Len(propertyList)
              /\ last'.ok = (present /\ from # to)
              /\ last'.ok =>
                    /\ Len(propertyList') = Len(propertyList)
                    /\ propertyList'[to] = propertyList[from]
                    /\ Without(propertyList', id) = Without(propertyList, id)
              /\ ~last'.ok => propertyList' = propertyList]_vars

\* the first of three entries has been dropped on the last index and is the
\* last entry now, behind the two others
C24_Witness ==
    /\ modal = "open"
    /\ last.op = "drop"
    /\ last.ok
    /\ last.j = 3
    /\ Len(propertyList) = 3
    /\ propertyList[3].id = last.id
    /\ propertyList[3].key = kA
    /\ propertyList[1].key = kB

\* the input without the blanks at its two ends
RECURSIVE Stripped(_)
Stripped(input) ==
    IF input = <<>> THEN <<>>
    ELSE IF Head(input) \in WhiteSpace THEN Stripped(Tail(input))
    ELSE IF input[Len(input)] \in WhiteSpace
    THEN Stripped(SubSeq(input, 1, Len(input) - 1))
    ELSE input

\* C25: an accepted add leaves the entries of the working list as they were,
\* in their order, and puts one entry behind them; its key is the input
\* without the blanks around it, and its identifier is that of no entry of
\* the working list and of no snapshot entry.
C25_AddAppends ==
    [][(AddProperty /\ last'.ok) =>
          LET n == Len(propertyList)
              new == propertyList'[n + 1]
          IN  /\ last'.op = "add"
              /\ Len(propertyList') = n + 1
              /\ SubSeq(propertyList', 1, n) = propertyList
              /\ new.key = Stripped(last'.name)
              /\ new.key # <<>>
              /\ new.id = last'.id
              /\ new.id \notin Ids(propertyList)
              /\ new.id \notin SnapIds(frontmatterLists')
              /\ new.id \notin SnapIds(captured')
              /\ \A r \in 1..Len(replays') :
                    new.id \notin SnapIds(replays'[r].snaps)]_vars

\* an input with a blank in front has been added behind an entry the
\* aggregation made, while the snapshots hold identifiers
C25_Witness ==
    /\ modal = "open"
    /\ last.op = "add"
    /\ last.ok
    /\ last.name = <<" ", "a">>
    /\ Len(propertyList) = 2
    /\ propertyList[1].key = kB
    /\ propertyList[1].id \in SnapIds(frontmatterLists)
    /\ propertyList[2].key = kA
    /\ propertyList[2].id = last.id

\* the text s has the form given: a letter of the form stands for a digit,
\* any other character of the form for itself
HasForm(s, form) ==
    /\ Len(s) = Len(form)
    /\ \A j \in 1..Len(form) :
          IF form[j] \in {"Y", "M", "D", "H"} THEN s[j] \in Digits ELSE s[j] = form[j]

DateForm == <<"Y", "Y", "Y", "Y", "-", "M", "M", "-", "D", "D">>
DateTimeForm == DateForm \o <<" ", "H", "H", ":", "M", "M">>

\* the label the type inference is to give a value, the label of a date with
\* a time being dateTime
LabelFor(value, dateTime) ==
    CASE value.kind = "null" -> "Null"
      [] value.kind = "array" -> "List"
      [] value.kind = "boolean" -> "Checkbox"
      [] value.kind = "number" -> "Number"
      [] value.kind = "dateobject" -> dateTime
      [] value.kind = "string" ->
            IF HasForm(value.str, DateForm) THEN "Date"
            ELSE IF HasForm(value.str, DateTimeForm) THEN dateTime
            ELSE "Text"

\* the entries of all snapshots of the aggregation
SnapEntries ==
    UNION {{frontmatterLists[i][k] : k \in 1..Len(frontmatterLists[i])} :
             i \in 1..Len(frontmatterLists)}

\* C26 as stated: the aggregation labels every value by its kind, null Null,
\* a sequence List, a boolean Checkbox, a number Number, a string YYYY-MM-DD
\* Date, a string YYYY-MM-DD HH:MM and a native date "Date & Time", any other
\* value Text.
C26_TypeInferenceAsStated ==
    \A e \in SnapEntries : e.type = LabelFor(e.value, "Date & Time")

\* C26 amended: the same mapping with the label "Date & time" for a string
\* YYYY-MM-DD HH:MM and for a native date; the empty string and a string that
\* only begins like a date are Text, the empty sequence is List.
C26_TypeInference ==
    \A e \in SnapEntries : e.type = LabelFor(e.value, "Date & time")

\* a string of date and time has been aggregated and labelled
C26_Witness ==
    /\ modal = "open"
    /\ \E e \in SnapEntries : e.value = Str(DateTimeText) /\ e.type = "Date & time"
    /\ \E j \in 1..Len(propertyList) : propertyList[j].type = <<"Date & time">>

\* the text s is enclosed in double square brackets
IsLink(s) ==
    /\ Len(s) >= 4
    /\ SubSeq(s, 1, 2) = <<"[", "[">>
    /\ SubSeq(s, Len(s) - 1, Len(s)) = <<"]", "]">>

\* s as a quoted literal, for a text that has no quote of its own
Quoted(s) == <<"\"">> \o s \o <<"\"">>

\* a block sequence: a line of two blanks, a dash and a blank for each item,
\* then the item, quoted if it is a link
RECURSIVE BlockSequence(_)
BlockSequence(items) ==
    IF items = <<>> THEN <<>>
    ELSE LET item == Head(items)
             text == IF item.kind = "string" THEN item.str ELSE ToText(item)
         IN  <<"\n", " ", " ", "-", " ">>
             \o (IF item.kind = "string" /\ IsLink(item.str) THEN Quoted(text) ELSE text)
             \o BlockSequence(Tail(items))

\* C27: in the text a replay of the older variant writes, a list is a block
\* sequence of one entry per element, a string of link form is a quoted
\* literal, as an element of a list and as the value of a property, and is
\* read back as the string it was, and any other string is written as it is.
C27_ValueSerialization ==
    build = "part1" =>
        \A r \in 1..Len(replays) :
            \A k \in 1..Len(replays[r].written) :
                LET w == replays[r].written[k]
                IN  \A j \in 1..Len(w.pairs) :
                        LET v == w.pairs[j].value
                            text == stringifyValue(v)
                        IN  /\ v.kind = "array" => text = BlockSequence(v.items)
                            /\ (v.kind = "string" /\ IsLink(v.str)) =>
                                  /\ text = Quoted(v.str)
                                  /\ w.after.fm[j].value = v
                            /\ (v.kind = "string" /\ ~IsLink(v.str)) => text = v.str

\* C28: while a replay is at document k of its n documents its notice shows
\* k, and a replay that has ended, after its last write or at a write that
\* failed, has hidden its notice.
C28_NoticeDismissed ==
    \A r \in 1..Len(replays) :
        LET rp == replays[r]
        IN  /\ rp.phase \in {"reading", "writing"} =>
                  /\ rp.notice.shown
                  /\ rp.notice.k = rp.i
                  /\ rp.i \in 1..Len(rp.files)
            /\ rp.phase \in {"done", "failed"} => ~rp.notice.shown

\* the entries of the working list props that the aggregation behind the
\* snapshots snaps did not make: the entries an add has made
AddedTo(props, snaps) ==
    {props[j] : j \in {k \in 1..Len(props) : props[k].id \notin SnapIds(snaps)}}

\* the value an add gives its entry
AddDefault == IF build = "main" THEN Null ELSE Str(<<>>)

\* C29: an entry an add has made, also one of a name whose entry was deleted
\* before, is the only entry of its name, has an identifier no snapshot has
\* and the default value; a replay writes its name with the default value to
\* every document, whatever value the document had under that name.
C29_DeleteAddNoRestore ==
    /\ modal = "open" =>
          \A e \in AddedTo(propertyList, captured) :
              /\ e.value = AddDefault
              /\ e.id \notin SnapIds(frontmatterLists)
              /\ Cardinality({j \in 1..Len(propertyList) :
                                propertyList[j].key = e.key}) = 1
    /\ \A r \in 1..Len(replays) :
          \A e \in AddedTo(replays[r].props, replays[r].snaps) :
              \A k \in 1..Len(replays[r].written) :
                  LET w == replays[r].written[k]
                  IN  /\ e.id \notin Ids(w.snap.list)
                      /\ Cardinality({j \in 1..Len(w.pairs) :
                                        w.pairs[j].key = e.key}) = 1
                      /\ \A j \in 1..Len(w.pairs) :
                            w.pairs[j].key = e.key => w.pairs[j].value = AddDefault

\* the entry named a was deleted and a was added again; the replay has
\* written a note that had the value x under a, and has given it the default
C29_Witness ==
    \E r \in 1..Len(replays) :
        \E e \in AddedTo(replays[r].props, replays[r].snaps) :
            \E k \in 1..Len(replays[r].written) :
                LET w == replays[r].written[k]
                IN  /\ e.key = kA
                    /\ kA \in SnapKeys(replays[r].snaps)
                    /\ [key |-> kA, value |-> Str(<<"x">>)] \in PairSet(w.before.fm)
                    /\ [key |-> kA, value |-> AddDefault] \in PairSet(w.pairs)

\* C30: whenever the open modal offers the save, the plugin holds the
\* snapshots this modal's aggregation built, one for each file of the modal's
\* file list, and every entry of the working list is an entry of that
\* aggregation or an entry an add has made.
C30_SessionAligned ==
    (modal = "open" /\ saveOffered) =>
        /\ Len(frontmatterLists) = Len(fileList)
        /\ frontmatterLists = captured
        /\ \A j \in 1..Len(propertyList) :
              \/ propertyList[j].id \in SnapIds(frontmatterLists)
              \/ propertyList[j] = NewProperty(propertyList[j].id, propertyList[j].key)

====
